---------------------------- MODULE Spec2Model ----------------------------
(* Model of src/snowflake_objects.py: the module-level script that builds  *)
(* one Airflow DAG from the .sql files found under ten fixed               *)
(* subdirectories.  Text (file names, SQL text, schema names) is modelled  *)
(* as sequences of one-character strings so that sorting, suffix tests,    *)
(* substring tests and replacement are computed, not assumed.              *)
EXTENDS Integers, Sequences, FiniteSets, TLC

VARIABLES
    \* ---- the environment the script reads (fixed once read) ----
    cfgFile,            \* snowflake_ci.yml
    connections,        \* Airflow connection store
    readme,             \* README.md
    variables,          \* Airflow Variable store
    fs,                 \* category subdirectory -> directory listing
    \* ---- the script's own state ----
    pc,                 \* position in the script
    reason,             \* why the import raised, when pc = "aborted"
    config,             \* the parsed configuration mapping
    SNOWFLAKE_CONN_ID, OWNER, TAGS,
    SNOWFLAKE_SCHEMA,
    params,
    dag,                \* the DAG object, once constructed
    tasks,              \* operators registered in the DAG
    edges,              \* <<upstream, downstream>> pairs of task keys
    groups,             \* TaskGroups created in the DAG
    task_groups,        \* the task_groups dict (non-empty groups)
    prev_group,
    idx,                \* index into target_subdirs
    pending,            \* rest of sorted(os.listdir(subdir_path))
    prev_task,
    n_tasks,
    \* ---- re-import by the host ----
    run,                \* "first" or "second" import of the module
    first               \* the pipeline the first import produced

envVars  == <<cfgFile, connections, readme, variables, fs>>
confVars == <<config, SNOWFLAKE_CONN_ID, OWNER, TAGS>>
dagVars  == <<dag, tasks, edges, groups, task_groups, prev_group>>
loopVars == <<idx, pending, prev_task, n_tasks>>
vars == <<envVars, pc, reason, confVars, SNOWFLAKE_SCHEMA, params, dagVars,
          loopVars, run, first>>

-----------------------------------------------------------------------------
(* Bounds *)

\* at most this many of the ten category subdirectories exist on disk
MaxDirs == 3

-----------------------------------------------------------------------------
(* Text *)

\* the characters used, in code point order
CodeOrder ==
    <<"\n", " ", ".", "0", "1", "2", "3", "4", "5", "6", "7", "8", "9", ";",
      "A", "B", "C", "D", "E", "F", "G", "H", "I", "J", "K", "L", "M",
      "N", "O", "P", "Q", "R", "S", "T", "U", "V", "W", "X", "Y", "Z", "_",
      "a", "b", "c", "d", "e", "f", "g", "h", "i", "j", "k", "l", "m",
      "n", "o", "p", "q", "r", "s", "t", "u", "v", "w", "x", "y", "z">>

Chars == {CodeOrder[i] : i \in 1..Len(CodeOrder)}

\* the rank of each character in code point order
OrdTable == [c \in Chars |-> CHOOSE i \in 1..Len(CodeOrder) : CodeOrder[i] = c]

\* ord(c), up to an order-preserving renumbering
Ord(c) == OrdTable[c]

LowerCase == SubSeq(CodeOrder, Ord("a"), Ord("z"))
UpperCase == SubSeq(CodeOrder, Ord("A"), Ord("Z"))

UpperTable ==
    [c \in Chars |->
        IF \E i \in 1..Len(LowerCase) : LowerCase[i] = c
        THEN UpperCase[CHOOSE i \in 1..Len(LowerCase) : LowerCase[i] = c]
        ELSE c]

\* str.upper(), one character
UpperChar(c) == UpperTable[c]

\* str.upper()
Upper(s) == [i \in 1..Len(s) |-> UpperChar(s[i])]

\* s[i:i+len(p)] == p
MatchAt(s, p, i) ==
    /\ i + Len(p) - 1 <= Len(s)
    /\ \A j \in 1..Len(p) : s[i + j - 1] = p[j]

\* p in s
Contains(s, p) == \E i \in 1..(Len(s) + 1) : MatchAt(s, p, i)

\* s.endswith(p)
EndsWith(s, p) == Len(s) >= Len(p) /\ MatchAt(s, p, Len(s) - Len(p) + 1)

DropFirst(s, n) == SubSeq(s, n + 1, Len(s))

\* s.replace(p, ''): every non-overlapping occurrence, left to right
RECURSIVE Remove(_, _)
Remove(s, p) ==
    IF s = <<>> THEN <<>>
    ELSE IF MatchAt(s, p, 1) THEN Remove(DropFirst(s, Len(p)), p)
    ELSE <<Head(s)>> \o Remove(Tail(s), p)

\* a < b for Python str: lexicographic by code point, a proper prefix first
RECURSIVE StrLess(_, _)
StrLess(a, b) ==
    IF b = <<>> THEN FALSE
    ELSE IF a = <<>> THEN TRUE
    ELSE IF Head(a) = Head(b) THEN StrLess(Tail(a), Tail(b))
    ELSE Ord(Head(a)) < Ord(Head(b))

RECURSIVE Insert(_, _)
Insert(x, s) ==
    IF s = <<>> THEN <<x>>
    ELSE IF StrLess(Head(s), x) THEN <<Head(s)>> \o Insert(x, Tail(s))
    ELSE <<x>> \o s

RECURSIVE InsertionSort(_)
InsertionSort(s) ==
    IF s = <<>> THEN <<>> ELSE Insert(Head(s), InsertionSort(Tail(s)))

\* faulty variant: the listing is used in the order os.listdir returned it
sorted_unsorted(names) == names

\* sorted(names)
sorted(names) == InsertionSort(names)

Range(s) == {s[i] : i \in 1..Len(s)}

\* the orders in which os.listdir may return a set of names
Orderings(S) ==
    {o \in [1..Cardinality(S) -> S] : \A n \in S : \E i \in DOMAIN o : o[i] = n}

SqlExt == <<".", "s", "q", "l">>
UseWord == <<"U", "S", "E">>


-----------------------------------------------------------------------------
(* The environment: what the files and the Airflow stores may hold *)

Unread == [kind |-> "unread"]

\* what a read returns: any value of the pool the first time, the same value
\* on every later read
Reads(cur, pool) == IF cur = Unread THEN pool ELSE {cur}

\* dict.get(key, default)
Get(d, k, default) == IF k \in DOMAIN d THEN d[k] ELSE default

EmptyDict == <<>>

\* snowflake_ci.yml: absent, not parseable, or a mapping
ConfigPool ==
    { [kind |-> "missing"],
      [kind |-> "malformed"],
      [kind |-> "ok", doc |-> EmptyDict],
      [kind |-> "ok",
       doc  |-> [SNOWFLAKE_CONN_ID |-> "sf", OWNER |-> "ops",
                 TAGS |-> <<"etl">>, PARAMS |-> <<"p1", "p2">>]],
      [kind |-> "ok",
       doc  |-> [SNOWFLAKE_CONN_ID |-> "sf",
                 PARAMS |-> <<"schema_name", "p1">>]] }

\* the connection store: conn_id -> extra_dejson
ConnectionPool ==
    { [kind |-> "store", conns |-> EmptyDict],
      [kind |-> "store", conns |-> [sf |-> [role |-> "r"]]],
      [kind |-> "store", conns |-> [sf |-> [database |-> <<"D", "B">>]]] }

ReadmePool == { [kind |-> "unreadable"], [kind |-> "text", text |-> "doc"] }

\* the Variable store: name -> value
v_1     == <<"v", "1">>
v_2     == <<"v", "2">>
v_other == <<"o", "t", "h", "e", "r">>

\* the empty string
EmptyStr == <<>>

VariablePool ==
    { [kind |-> "store", vals |-> [p1 |-> v_1, schema_name |-> v_other]],
      [kind |-> "store", vals |-> [p2 |-> v_2]] }

File(name, text) == [name |-> name, text |-> text, readable |-> TRUE]
Unreadable(name) == [name |-> name, text |-> <<>>, readable |-> FALSE]

f_1_sql     == <<"1", ".", "s", "q", "l">>
f_2_sql     == <<"2", ".", "s", "q", "l">>
f_x_sql     == <<"x", ".", "s", "q", "l">>
f_x_sql_sql == <<"x", ".", "s", "q", "l", ".", "s", "q", "l">>
f_w_sql_sql == <<"w", ".", "s", "q", "l", ".", "s", "q", "l">>
f_n_txt     == <<"n", ".", "t", "x", "t">>

t_select    == <<"S", "E", "L", " ", "1">>
t_use_lower == <<"u", "s", "e", " ", "s", ";", "\n", "S", "E", "L", " ", "1">>
t_use_upper == <<"U", "S", "E", " ", "S", ";">>
t_users     == <<"S", "E", "L", " ", "u", "s", "e", "r", "s">>

\* the listings a category subdirectory may hold, by name
Entries(d) ==
    CASE d.id = "no_sql"     -> {File(f_n_txt, t_select)}
      [] d.id = "two"        -> {File(f_2_sql, t_use_lower),
                                 File(f_1_sql, t_select)}
      [] d.id = "one"        -> {File(f_x_sql, t_users),
                                 File(f_n_txt, t_select)}
      [] d.id = "same_id"    -> {File(f_w_sql_sql, t_select),
                                 File(f_x_sql, t_select),
                                 File(f_x_sql_sql, t_select)}
      [] d.id = "unreadable" -> {File(f_1_sql, t_use_upper),
                                 Unreadable(f_2_sql)}

DirPool ==
    {[kind |-> "dir", id |-> i] :
        i \in {"no_sql", "two", "one", "same_id", "unreadable"}}

Absent == [kind |-> "absent"]

\* os.path.isdir(subdir_path)
isdir(d) == d.kind = "dir"

\* the entry of a listing with a given name
Entry(d, name) == CHOOSE e \in Entries(d) : e.name = name

Names(d) == {e.name : e \in Entries(d)}

-----------------------------------------------------------------------------
(* Module-level constants of the script *)

\* os.path.basename(base_directory_path) and of its parent
directory_name  == <<"s", "a", "l", "e", "s">>
parent_dir_name == <<"c", "r", "m">>

dynamic_dag_id == parent_dir_name \o <<"_">> \o directory_name

target_subdirs ==
    <<"file_formats", "stages", "tables", "views", "sequences", "streams",
      "functions", "procedures", "tasks", "dml">>

Categories == Range(target_subdirs)

PosTable ==
    [c \in Categories |->
        CHOOSE i \in 1..Len(target_subdirs) : target_subdirs[i] = c]

\* position of a category in target_subdirs
Pos(c) == PosTable[c]

None == <<>>
NoGroup == "None"
NoDag == [kind |-> "none"]

-----------------------------------------------------------------------------
(* Helpers of the task loop *)

\* the order of the module's top-level statements before the task loop
NextPc_DagFirst(step) ==
    CASE step = "load_config"    -> "create_dag"
      [] step = "create_dag"     -> "get_connection"
      [] step = "get_connection" -> "read_readme"
      [] step = "read_readme"    -> "resolve_params"
      [] step = "resolve_params" -> "walk"

NextPc(step) ==
    CASE step = "load_config"    -> "get_connection"
      [] step = "get_connection" -> "read_readme"
      [] step = "read_readme"    -> "resolve_params"
      [] step = "resolve_params" -> "create_dag"
      [] step = "create_dag"     -> "walk"

\* faulty variant: the default is returned whether or not the variable is set
VariableGet_AlwaysDefault(store, key, default_var) == default_var

\* Variable.get(key, default_var=...)
VariableGet(store, key, default_var) ==
    IF key \in DOMAIN store THEN store[key] ELSE default_var

\* {"schema_name": SNOWFLAKE_SCHEMA, **params}: later keys overwrite
MergeParams(schema, ps) ==
    [k \in {"schema_name"} \cup DOMAIN ps |->
        IF k \in DOMAIN ps THEN ps[k] ELSE schema]

\* faulty variant: every directory entry is taken for a SQL file
IsSqlFile_Any(file) == TRUE

\* file.endswith('.sql')
IsSqlFile(file) == EndsWith(file, SqlExt)

\* file.replace('.sql', '')
TaskId(file) == Remove(file, SqlExt)

UsePrefix(schema) == <<"U", "S", "E", " ">> \o schema \o <<";", "\n">>

\* lines 98-99: prepend "USE <schema>;\n" unless "USE" occurs in the text
InjectSchema(sql_query, schema) ==
    IF ~Contains(Upper(sql_query), UseWord)
    THEN UsePrefix(schema) \o sql_query
    ELSE sql_query

\* the key under which the DAG holds a task created inside a TaskGroup
Key(t) == <<t.group, t.task_id>>

TasksOf(g) == {t \in tasks : t.group = g}

\* TaskGroup.get_roots(): tasks of the group with no upstream task inside it
Roots(g, es) ==
    {Key(t) : t \in {u \in TasksOf(g) :
                        ~\E e \in es : e[2] = Key(u) /\ e[1][1] = g}}

\* faulty variant: every task of the group counts as a leaf
Leaves_All(g, es) == {Key(t) : t \in TasksOf(g)}

\* TaskGroup.get_leaves(): tasks of the group with no downstream task inside
Leaves(g, es) ==
    {Key(t) : t \in {u \in TasksOf(g) :
                        ~\E e \in es : e[1] = Key(u) /\ e[2][1] = g}}

\* faulty variant: the dependency is set the other way round
ChainTask_Reversed(prev, key, es) ==
    IF prev # None THEN es \cup {<<key, prev>>} ELSE es

\* lines 109-110: if prev_task: prev_task >> task
ChainTask(prev, key, es) ==
    IF prev # None THEN es \cup {<<prev, key>>} ELSE es

\* faulty variant: a group without tasks is linked like any other
SkipsGroup_Never(n) == FALSE

\* line 115: if n_tasks < 1: continue
SkipsGroup(n) == n < 1

\* lines 120-121: if prev_group: prev_group >> tg
ChainGroup(prev, g, es) ==
    IF prev # NoGroup
    THEN es \cup (Leaves(prev, es) \X Roots(g, es))
    ELSE es

ExistingDirs == {c \in Categories : isdir(fs[c])}

\* what the walk may find at a subdirectory not looked at yet
DirChoices ==
    IF Cardinality(ExistingDirs) < MaxDirs THEN DirPool \cup {Absent}
    ELSE {Absent}

-----------------------------------------------------------------------------
(* The script *)

NoPipeline == [kind |-> "none"]

\* the state in which the module's first statement runs
Fresh ==
    /\ pc = "load_config"
    /\ reason = "none"
    /\ config = EmptyDict
    /\ SNOWFLAKE_CONN_ID = ""
    /\ OWNER = ""
    /\ TAGS = <<>>
    /\ SNOWFLAKE_SCHEMA = <<>>
    /\ params = EmptyDict
    /\ dag = NoDag
    /\ tasks = {}
    /\ edges = {}
    /\ groups = {}
    /\ task_groups = {}
    /\ prev_group = NoGroup
    /\ idx = 1
    /\ pending = <<>>
    /\ prev_task = None
    /\ n_tasks = 0

\* no connection, README or directory read so far
Unknown ==
    /\ connections = Unread
    /\ readme = Unread
    /\ fs = [c \in Categories |-> Unread]
    /\ run = "first"
    /\ first = NoPipeline

Init ==
    /\ cfgFile = Unread
    /\ variables = Unread
    /\ Unknown
    /\ Fresh

\* an exception leaves the module: the import fails where it stands
Abort(why) ==
    /\ pc' = "aborted"
    /\ reason' = why

\* lines 17-26
LoadConfig ==
    /\ pc = "load_config"
    /\ \E f \in Reads(cfgFile, ConfigPool) :
        /\ cfgFile' = f
        /\ IF f.kind = "ok"
           THEN /\ config' = f.doc
                /\ SNOWFLAKE_CONN_ID' =
                       Get(f.doc, "SNOWFLAKE_CONN_ID", "DEFAULT_CONNECTION")
                /\ OWNER' = Get(f.doc, "OWNER", "DEFAULT_OWNER")
                /\ TAGS' = Append(Get(f.doc, "TAGS", <<>>),
                                  Get(f.doc, "OWNER", "DEFAULT_OWNER"))
                /\ pc' = NextPc("load_config")
                /\ UNCHANGED reason
           ELSE /\ Abort(IF f.kind = "missing" THEN "config_missing"
                         ELSE "config_malformed")
                /\ UNCHANGED confVars
    /\ UNCHANGED <<connections, readme, variables, fs, SNOWFLAKE_SCHEMA,
                   params, dagVars, loopVars, run, first>>

\* lines 28-30
GetConnection ==
    /\ pc = "get_connection"
    /\ \E r \in Reads(connections, ConnectionPool) :
        /\ connections' = r
        /\ IF SNOWFLAKE_CONN_ID \notin DOMAIN r.conns
           THEN Abort("connection_unresolved") /\ UNCHANGED SNOWFLAKE_SCHEMA
           ELSE IF "database" \notin DOMAIN r.conns[SNOWFLAKE_CONN_ID]
           THEN Abort("no_database") /\ UNCHANGED SNOWFLAKE_SCHEMA
           ELSE /\ SNOWFLAKE_SCHEMA' =
                       r.conns[SNOWFLAKE_CONN_ID].database \o <<".">>
                           \o directory_name
                /\ pc' = NextPc("get_connection")
                /\ UNCHANGED reason
    /\ UNCHANGED <<cfgFile, readme, variables, fs, confVars, params, dagVars,
                   loopVars, run, first>>

\* lines 38-41
ReadReadme ==
    /\ pc = "read_readme"
    /\ \E r \in Reads(readme, ReadmePool) :
        /\ readme' = r
        /\ IF r.kind = "text"
           THEN pc' = NextPc("read_readme") /\ UNCHANGED reason
           ELSE Abort("readme_unreadable")
    /\ UNCHANGED <<cfgFile, connections, variables, fs, confVars,
                   SNOWFLAKE_SCHEMA, params, dagVars, loopVars, run, first>>

\* lines 43-46
ResolveParams ==
    /\ pc = "resolve_params"
    /\ \E v \in Reads(variables, VariablePool) :
        /\ variables' = v
        /\ params' = [k \in Range(Get(config, "PARAMS", <<>>)) |->
                         VariableGet(v.vals, k, EmptyStr)]
    /\ pc' = NextPc("resolve_params")
    /\ UNCHANGED <<cfgFile, connections, readme, fs, reason, confVars,
                   SNOWFLAKE_SCHEMA, dagVars, loopVars, run, first>>

\* lines 48-58 and 74-76
CreateDag ==
    /\ pc = "create_dag"
    /\ dag' = [kind |-> "dag", dag_id |-> dynamic_dag_id, tags |-> TAGS,
               owner |-> OWNER]
    /\ task_groups' = {}
    /\ prev_group' = NoGroup
    /\ pc' = NextPc("create_dag")
    /\ UNCHANGED <<envVars, reason, confVars, SNOWFLAKE_SCHEMA, params, tasks,
                   edges, groups, loopVars, run, first>>

\* the subdirectory the loop of line 78 stands at
subdir_name == target_subdirs[idx]

\* lines 78-89: one turn of the loop over target_subdirs, up to the listing
EnterSubdir ==
    /\ pc = "walk"
    /\ idx <= Len(target_subdirs)
    /\ \E d \in Reads(fs[subdir_name], DirChoices) :
        /\ fs' = [fs EXCEPT ![subdir_name] = d]
        /\ IF ~isdir(d)
           THEN /\ idx' = idx + 1
                /\ UNCHANGED <<pc, groups, pending, prev_task, n_tasks>>
           ELSE /\ groups' = groups \cup {subdir_name}
                /\ prev_task' = None
                /\ n_tasks' = 0
                /\ \E listing \in Orderings(Names(d)) :
                       pending' = sorted(listing)
                /\ pc' = "files"
                /\ UNCHANGED idx
    /\ UNCHANGED <<cfgFile, connections, readme, variables, reason, confVars,
                   SNOWFLAKE_SCHEMA, params, dag, tasks, edges, task_groups,
                   prev_group, run, first>>

\* line 90: a directory entry that is not a .sql file
SkipEntry ==
    /\ pc = "files"
    /\ pending # <<>>
    /\ ~IsSqlFile(Head(pending))
    /\ pending' = Tail(pending)
    /\ UNCHANGED <<envVars, pc, reason, confVars, SNOWFLAKE_SCHEMA, params,
                   dagVars, idx, prev_task, n_tasks, run, first>>

\* lines 90-113: one .sql file
ProcessFile ==
    /\ pc = "files"
    /\ pending # <<>>
    /\ IsSqlFile(Head(pending))
    /\ LET file    == Head(pending)
           entry   == Entry(fs[subdir_name], file)
           task_id == TaskId(file)
           task    == [group   |-> subdir_name,
                       task_id |-> task_id,
                       file    |-> file,
                       sql     |-> InjectSchema(entry.text, SNOWFLAKE_SCHEMA),
                       snowflake_conn_id |-> SNOWFLAKE_CONN_ID,
                       params  |-> MergeParams(SNOWFLAKE_SCHEMA, params)]
       IN  IF ~entry.readable
           THEN /\ Abort("sql_unreadable")
                /\ UNCHANGED <<tasks, edges, pending, prev_task, n_tasks>>
           ELSE IF \E t \in tasks : Key(t) = Key(task)
           THEN /\ Abort("duplicate_task_id")
                /\ UNCHANGED <<tasks, edges, pending, prev_task, n_tasks>>
           ELSE /\ tasks' = tasks \cup {task}
                /\ edges' = ChainTask(prev_task, Key(task), edges)
                /\ prev_task' = Key(task)
                /\ n_tasks' = n_tasks + 1
                /\ pending' = Tail(pending)
                /\ UNCHANGED <<pc, reason>>
    /\ UNCHANGED <<envVars, confVars, SNOWFLAKE_SCHEMA, params, dag, groups,
                   task_groups, prev_group, idx, run, first>>

\* lines 115-123: the listing is exhausted
CloseGroup ==
    /\ pc = "files"
    /\ pending = <<>>
    /\ IF SkipsGroup(n_tasks)
       THEN UNCHANGED <<task_groups, edges, prev_group>>
       ELSE /\ task_groups' = task_groups \cup {subdir_name}
            /\ edges' = ChainGroup(prev_group, subdir_name, edges)
            /\ prev_group' = subdir_name
    /\ idx' = idx + 1
    /\ pc' = "walk"
    /\ UNCHANGED <<envVars, reason, confVars, SNOWFLAKE_SCHEMA, params, dag,
                   tasks, groups, pending, prev_task, n_tasks, run, first>>

\* the loop over target_subdirs is exhausted: the module is imported
Finish ==
    /\ pc = "walk"
    /\ idx > Len(target_subdirs)
    /\ pc' = "done"
    /\ UNCHANGED <<envVars, reason, confVars, SNOWFLAKE_SCHEMA, params,
                   dagVars, loopVars, run, first>>

\* what an import hands to the host
Pipeline == [kind |-> "pipeline", dag |-> dag, tasks |-> tasks, edges |-> edges]

\* the host parses the file again: the module runs from its first line, and
\* the files and stores hold what they held
Reimport ==
    /\ pc = "done"
    /\ run = "first"
    /\ run' = "second"
    /\ first' = Pipeline
    /\ pc' = "load_config"
    /\ reason' = "none"
    /\ config' = EmptyDict
    /\ SNOWFLAKE_CONN_ID' = ""
    /\ OWNER' = ""
    /\ TAGS' = <<>>
    /\ SNOWFLAKE_SCHEMA' = <<>>
    /\ params' = EmptyDict
    /\ dag' = NoDag
    /\ tasks' = {}
    /\ edges' = {}
    /\ groups' = {}
    /\ task_groups' = {}
    /\ prev_group' = NoGroup
    /\ idx' = 1
    /\ pending' = <<>>
    /\ prev_task' = None
    /\ n_tasks' = 0
    /\ UNCHANGED envVars

\* one import of the module
Next ==
    \/ LoadConfig
    \/ GetConnection
    \/ ReadReadme
    \/ ResolveParams
    \/ CreateDag
    \/ EnterSubdir
    \/ SkipEntry
    \/ ProcessFile
    \/ CloseGroup
    \/ Finish

Spec == Init /\ [][Next]_vars

\* an import followed by a second one
NextReimport == Next \/ Reimport

\* the two imports are compared under the configuration that names an owner
InitReimport ==
    /\ cfgFile \in {f \in ConfigPool : f.kind = "ok" /\ "OWNER" \in DOMAIN f.doc}
    /\ variables = Unread
    /\ Unknown
    /\ Fresh

SpecReimport == InitReimport /\ [][NextReimport]_vars

-----------------------------------------------------------------------------
(* Vocabulary of the properties *)

Completed == pc = "done"

\* the .sql files of an existing category subdirectory
SqlFiles(c) == {n \in Names(fs[c]) : EndsWith(n, SqlExt)}

\* the categories that exist and hold at least one .sql file
NonEmpty == {c \in ExistingDirs : SqlFiles(c) # {}}

\* the units created from file f of category c
UnitsOf(c, f) == {t \in tasks : t.group = c /\ t.file = f}

\* f and g are neighbours in the sorted list of the category's .sql files
Adjacent(files, f, g) ==
    /\ StrLess(f, g)
    /\ ~\E h \in files : StrLess(f, h) /\ StrLess(h, g)

FirstOf(files) == CHOOSE f \in files : \A g \in files : ~StrLess(g, f)
LastOf(files)  == CHOOSE f \in files : \A g \in files : ~StrLess(f, g)

FirstFile(c) == FirstOf(SqlFiles(c))
LastFile(c)  == LastOf(SqlFiles(c))

\* c1 and c2 are neighbours among the categories of the set ne
Consecutive(ne, c1, c2) ==
    /\ Pos(c1) < Pos(c2)
    /\ ~\E c \in ne : Pos(c1) < Pos(c) /\ Pos(c) < Pos(c2)

Between(c1, c2) == {c \in Categories : Pos(c1) < Pos(c) /\ Pos(c) < Pos(c2)}

Keys == {Key(t) : t \in tasks}
Preds(k) == {e[1] : e \in {d \in edges : d[2] = k}}
Succs(k) == {e[2] : e \in {d \in edges : d[1] = k}}

\* the keys reachable from a set of keys along the edges
RECURSIVE ReachFrom(_)
ReachFrom(S) ==
    LET T == S \cup UNION {Succs(k) : k \in S}
    IN  IF T = S THEN S ELSE ReachFrom(T)

\* the text holds USE as a word that starts a statement
HasUseStatement(s) ==
    \E i \in 1..Len(s) :
        /\ MatchAt(Upper(s), UseWord, i)
        /\ i = 1 \/ s[i - 1] \in {" ", "\n", ";"}
        /\ i + Len(UseWord) <= Len(s)
        /\ s[i + Len(UseWord)] \in {" ", "\n"}

\* the text of the file a unit was created from
SourceText(t) == Entry(fs[t.group], t.file).text

\* the schema name: the connection's database, a dot, the leaf directory
ResolvedSchema ==
    connections.conns[SNOWFLAKE_CONN_ID].database \o <<".">> \o directory_name

\* the PARAMS list of the configuration file
Declared == Range(Get(cfgFile.doc, "PARAMS", <<>>))

-----------------------------------------------------------------------------
(* Properties *)

\* C1: when generation completes, the units of each existing category are
\* chained in lexicographic filename order: the unit of g depends directly on
\* the unit of f for neighbours f < g of the sorted .sql files, and no unit
\* depends on a unit of its category whose filename sorts after its own.
C1_CategoryChainSorted ==
    Completed =>
        \A c \in ExistingDirs :
            LET files == SqlFiles(c)
            IN  /\ \A f \in files : Cardinality(UnitsOf(c, f)) = 1
                /\ \A f, g \in files :
                       Adjacent(files, f, g) =>
                           \E tf \in UnitsOf(c, f), tg \in UnitsOf(c, g) :
                               <<Key(tf), Key(tg)>> \in edges
                /\ \A tf, tg \in TasksOf(c) :
                       <<Key(tf), Key(tg)>> \in edges
                           => StrLess(tf.file, tg.file)

C1_Witness ==
    /\ Completed
    /\ \E c \in ExistingDirs : Cardinality(SqlFiles(c)) >= 2
    /\ \E e \in edges : e[1][1] = e[2][1]

\* C2: when generation completes, for neighbours c1, c2 among the non-empty
\* categories the first unit of c2 depends on the last unit of c1, whatever
\* absent or empty categories lie between; an absent or empty category has no
\* unit and takes part in no dependency.
C2_CategoriesLinked ==
    Completed =>
        LET ne == NonEmpty
        IN  /\ \A c1, c2 \in ne :
                   Consecutive(ne, c1, c2) =>
                       \E t1 \in UnitsOf(c1, LastFile(c1)),
                          t2 \in UnitsOf(c2, FirstFile(c2)) :
                           <<Key(t1), Key(t2)>> \in edges
            /\ \A c \in Categories \ ne :
                   /\ TasksOf(c) = {}
                   /\ \A e \in edges : e[1][1] # c /\ e[2][1] # c

C2_Witness ==
    /\ Completed
    /\ \E c1, c2 \in NonEmpty :
           /\ Consecutive(NonEmpty, c1, c2)
           /\ \E c \in Between(c1, c2) : isdir(fs[c])
           /\ \E c \in Between(c1, c2) : ~isdir(fs[c])
           /\ \E t1 \in UnitsOf(c1, LastFile(c1)),
                 t2 \in UnitsOf(c2, FirstFile(c2)) :
                  <<Key(t1), Key(t2)>> \in edges

\* C3: the dependency graph of a completed pipeline is one linear chain: each
\* unit has at most one direct predecessor and at most one direct successor,
\* and if there is a unit, exactly one unit has no predecessor and every unit
\* is reachable from it.
C3_SingleChain ==
    Completed =>
        /\ \A k \in Keys : Cardinality(Preds(k)) <= 1 /\ Cardinality(Succs(k)) <= 1
        /\ Keys # {} =>
               /\ Cardinality({k \in Keys : Preds(k) = {}}) = 1
               /\ ReachFrom({k \in Keys : Preds(k) = {}}) = Keys

C3_Witness ==
    /\ Completed
    /\ Cardinality(NonEmpty) >= 2
    /\ Cardinality(Keys) >= 4

\* C4: the text of every unit is the file's text unchanged when that text
\* holds a USE statement in any letter case, and otherwise the file's text
\* with one USE statement for the resolved schema prepended.
C4_SchemaInjected ==
    \A t \in tasks :
        t.sql = IF HasUseStatement(SourceText(t))
                THEN SourceText(t)
                ELSE UsePrefix(ResolvedSchema) \o SourceText(t)

\* C5: if generation aborts on the configuration file or on the connection,
\* no pipeline object exists and no unit is registered.
C5_NoPipelineOnEarlyAbort ==
    (pc = "aborted" /\ reason \in {"config_missing", "config_malformed",
                                   "connection_unresolved", "no_database"})
        => dag = NoDag /\ tasks = {}

C5_Witness ==
    /\ pc = "aborted"
    /\ reason = "no_database"
    /\ cfgFile.kind = "ok"

\* C6 as stated: if reading a SQL file fails, no unit is registered when
\* generation has aborted.
C6_NoUnitOnUnreadableFile ==
    (pc = "aborted" /\ reason = "sql_unreadable") => tasks = {}

\* the .sql files visited before the loop reached the head of pending
VisitedBefore ==
    UNION {{<<c, f>> : f \in Names(fs[c])} :
              c \in {d \in ExistingDirs : Pos(d) < idx}}
    \cup {<<subdir_name, f>> : f \in {g \in Names(fs[subdir_name]) :
                                         StrLess(g, Head(pending))}}

\* C6 as amended: if reading a SQL file fails, generation aborts there, the
\* pipeline object exists, and the units registered are those of the .sql
\* files that come before the unreadable one in category and filename order.
C6_UnitsBeforeUnreadableFile ==
    (pc = "aborted" /\ reason = "sql_unreadable") =>
        /\ dag # NoDag
        /\ ~Entry(fs[subdir_name], Head(pending)).readable
        /\ {<<t.group, t.file>> : t \in tasks}
               = {v \in VisitedBefore : EndsWith(v[2], SqlExt)}

C6_Witness ==
    /\ pc = "aborted"
    /\ reason = "sql_unreadable"
    /\ \E t \in tasks : t.group = subdir_name
    /\ \E t \in tasks : t.group # subdir_name

\* C7: every unit receives the same parameter map: each declared parameter
\* maps to its external value when set and to the empty string when unset,
\* and the only other key is schema_name.
C7_ParameterMap ==
    \A t \in tasks :
        /\ DOMAIN t.params = Declared \cup {"schema_name"}
        /\ \A k \in Declared :
               t.params[k] = IF k \in DOMAIN variables.vals
                             THEN variables.vals[k] ELSE EmptyStr
        /\ \A u \in tasks : u.params = t.params

C7_Witness ==
    /\ Cardinality(tasks) >= 2
    /\ \E k \in Declared : k \in DOMAIN variables.vals
    /\ \E k \in Declared : k \notin DOMAIN variables.vals

\* C8: a second generation from the same inputs yields the same pipeline:
\* identifier, tags, units (identifier, text, parameters) and dependencies.
C8_SamePipelineTwice ==
    (Completed /\ run = "second") => Pipeline = first

C8_Witness ==
    /\ Completed
    /\ run = "second"
    /\ Cardinality(NonEmpty) >= 2
    /\ \E c \in NonEmpty : Cardinality(SqlFiles(c)) >= 2

\* C9: in every unit's parameter map the key schema_name holds the resolved
\* schema name, also when PARAMS declares a parameter named schema_name.
C9_SchemaNameWins ==
    \A t \in tasks : t.params["schema_name"] = ResolvedSchema

\* C10: within a category distinct .sql files yield distinct identifiers, each
\* the filename without its trailing .sql; no two files meet in one identifier.
C10_DistinctIdentifiers ==
    /\ \A t \in tasks :
           t.task_id = SubSeq(t.file, 1, Len(t.file) - Len(SqlExt))
    /\ \A t, u \in tasks :
           (t.group = u.group /\ t.file # u.file) => t.task_id # u.task_id
    /\ reason # "duplicate_task_id"

=============================================================================
